---------------------------- MODULE Spec2Model ----------------------------
(***************************************************************************)
(* A model of readable/core.py (python-readable, a port of Arc90's         *)
(* readability): the lxml element tree as a heap of element records, the   *)
(* text utilities, the tree rewriters, the cleaners, the scorer and the    *)
(* flag relaxation loop of Readable.grab_article.                          *)
(*                                                                         *)
(* Texts are sequences of one-character strings.  None and the empty       *)
(* string are both the empty sequence (python treats both as false).       *)
(* An element is its index in the heap; 0 is None.                         *)
(***************************************************************************)
EXTENDS Integers, Sequences, FiniteSets, TLC

VARIABLES
    dom,      \* the heap of elements: a sequence of element records
    flags,    \* Readable.flags, the set of the bits that are set
    pc,       \* where the modelled operation stands
    data,     \* the input of the operation (a parsed document, a node, a tag)
    it,       \* NodeIter and the locals of select_scorable
    ctl,      \* the locals of grab_article
    out       \* what the operation returned

vars == <<dom, flags, pc, data, it, ctl, out>>

None == 0

-----------------------------------------------------------------------------
(* Bounds of the model                                                     *)

\* how often grab_article is called on one Readable
MaxCalls == 2

-----------------------------------------------------------------------------
(* Sequences                                                               *)

Range(s) == {s[i] : i \in DOMAIN s}

\* the text s repeated k times
Rep(s, k) == [i \in 1..(k * Len(s)) |-> s[((i - 1) % Len(s)) + 1]]

\* s without the element x
Without(s, x) == SelectSeq(s, LAMBDA y : y # x)

\* the position of x in s (0 when absent)
IndexOf(s, x) == IF \E i \in DOMAIN s : s[i] = x
                 THEN CHOOSE i \in DOMAIN s : s[i] = x /\ \A j \in 1..(i-1) : s[j] # x
                 ELSE 0

\* the number of elements of s equal to x
Count(s, x) == Cardinality({i \in DOMAIN s : s[i] = x})

-----------------------------------------------------------------------------
(* Texts and the regular expressions over them                             *)

\* python's \s: the whitespace characters of the modelled alphabet
IsSpace(c) == c \in {" ", "\n"}

\* str.strip() is non-empty
Strip(t) == \E i \in DOMAIN t : ~IsSpace(t[i])

\* RE_NORMALIZE.sub(' ', t): every maximal run of two or more whitespace
\* characters becomes one space; a single whitespace character stays as it is
RE_NORMALIZE_sub(t) ==
    LET keep == SelectSeq([i \in 1..Len(t) |-> i],
                          LAMBDA i : ~(IsSpace(t[i]) /\ i > 1 /\ IsSpace(t[i - 1])))
    IN [j \in 1..Len(keep) |->
           IF IsSpace(t[keep[j]]) /\ keep[j] < Len(t) /\ IsSpace(t[keep[j] + 1])
           THEN " " ELSE t[keep[j]]]

\* RE_SENT.search(t), RE_SENT being '\.( |$)': a '.' followed by a space or
\* at a place where '$' matches, which is the end of the text and also the
\* place before a newline that ends the text
RE_SENT_search(t) ==
    \E i \in DOMAIN t :
        /\ t[i] = "."
        /\ \/ i = Len(t)
           \/ t[i + 1] = " "
           \/ i + 1 = Len(t) /\ t[i + 1] = "\n"

\* The class, id and attribute values of the model are taken from a fixed
\* vocabulary; a regular expression is the set of the values it matches.
\* No two values of the vocabulary, concatenated, make a match that neither
\* of them has alone.
ClassWords == {"", "comment", "sidebar", "menu", "promo", "post", "main", "readableBody"}

RE_UNLIKELY_search(s) == s \in {"comment", "sidebar", "menu"}
RE_MAYBE_search(s)    == s \in {"main", "readableBody"}
RE_POSITIVE_search(s) == s \in {"post", "main", "readableBody"}
RE_NEGATIVE_search(s) == s \in {"comment", "sidebar", "promo"}

VideoUrl == "http://www.youtube.com/v/x"
OtherUrl == "http://ads.example.com/x"
RE_VIDEOS_search(s) == s = VideoUrl

-----------------------------------------------------------------------------
(* The element tree                                                        *)

\* lxml.html.Element(tag, attrib): a detached element
Element(tag, cls, nid, src, style) ==
    [tag |-> tag, cls |-> cls, id |-> nid, src |-> src, style |-> style,
     text |-> <<>>, tail |-> <<>>, kids |-> <<>>, parent |-> None,
     readable |-> FALSE, num |-> 0, den |-> 1]

\* an element of a parsed document
El(tag, cls, nid, text, tail, parent, kids) ==
    [Element(tag, cls, nid, "", FALSE) EXCEPT
        !.text = text, !.tail = tail, !.parent = parent, !.kids = kids]

getparent(d, n) == d[n].parent
getchildren(d, n) == d[n].kids

RECURSIVE iterdescendants(_, _)
RECURSIVE IterAll(_, _)
\* the descendants of n in document order
iterdescendants(d, n) == IterAll(d, d[n].kids)
IterAll(d, ks) ==
    IF ks = <<>> THEN <<>>
    ELSE <<Head(ks)>> \o iterdescendants(d, Head(ks)) \o IterAll(d, Tail(ks))

\* node.xpath('.//t1|.//t2|...'): the descendants with one of the tags
xpath(d, n, tags) == SelectSeq(iterdescendants(d, n), LAMBDA x : d[x].tag \in tags)

\* parent.remove(n): n leaves its parent and takes its tail with it
remove(d, n) ==
    LET p == d[n].parent
    IN [d EXCEPT ![p].kids = Without(@, n), ![n].parent = None]

\* parent.append(c): c moves (with its tail) from where it is to the end of p
append(d, p, c) ==
    LET q == d[c].parent
        d1 == IF q = None THEN d ELSE [d EXCEPT ![q].kids = Without(@, c)]
    IN [d1 EXCEPT ![p].kids = Append(@, c), ![c].parent = p]

\* parent.replace(old, new): new (detached) takes the place of old; old leaves
\* with its tail
replace(d, old, new) ==
    LET p == d[old].parent
    IN [d EXCEPT ![p].kids = [i \in DOMAIN @ |-> IF @[i] = old THEN new ELSE @[i]],
                 ![new].parent = p,
                 ![old].parent = None]

-----------------------------------------------------------------------------
(* Text utilities                                                          *)

RECURSIVE InnerRaw(_, _)
RECURSIVE InnerKids(_, _)
\* get_inner_text at any depth, before the normalisation of depth 0
InnerRaw(d, n) ==
    (IF d[n].text # <<>> THEN <<" ">> \o d[n].text ELSE <<>>)
    \o InnerKids(d, d[n].kids)
    \o (IF d[n].tail # <<>> THEN <<" ">> \o d[n].tail ELSE <<>>)
InnerKids(d, ks) ==
    IF ks = <<>> THEN <<>> ELSE InnerRaw(d, Head(ks)) \o InnerKids(d, Tail(ks))

get_inner_text(d, n, normalize_spaces) ==
    IF normalize_spaces THEN RE_NORMALIZE_sub(InnerRaw(d, n)) ELSE InnerRaw(d, n)

\* len(text.split(char)) - 1
get_char_count(d, n, char) == Count(get_inner_text(d, n, TRUE), char)

RECURSIVE SumLinks(_, _)
\* linklen of get_link_density: the summed text lengths of the links
SumLinks(d, links) ==
    IF links = <<>> THEN 0
    ELSE Len(get_inner_text(d, Head(links), TRUE)) + SumLinks(d, Tail(links))

\* get_link_density as the fraction linklen / textlen (0 / 1 when textlen is 0)
get_link_density(d, n) ==
    LET links == xpath(d, n, {"a"})
        textlen == Len(get_inner_text(d, n, TRUE))
    IN IF textlen = 0 THEN [num |-> 0, den |-> 1]
       ELSE [num |-> SumLinks(d, links), den |-> textlen]

-----------------------------------------------------------------------------
(* Flags                                                                   *)

\* a flag word is the set of its bits that are set; & is \cap, ~ is the
\* complement, so that flags & ~flag is flags \ flag
FLAG_NONE == {}
FLAG_STRIP_UNLIKELY == {0}
FLAG_CLASS_WEIGHT == {1}
FLAG_CLEAN_CONDITIONALLY == {2}

\* FLAGS with the last two flags in the wrong order
FLAGS_Swapped ==
    <<FLAG_NONE, FLAG_STRIP_UNLIKELY, FLAG_CLEAN_CONDITIONALLY, FLAG_CLASS_WEIGHT>>

\* Readable.FLAGS
FLAGS == <<FLAG_NONE, FLAG_STRIP_UNLIKELY, FLAG_CLASS_WEIGHT, FLAG_CLEAN_CONDITIONALLY>>

\* self.flags = 0xFFFF in __init__
InitFlags == 0..15

AllThree == FLAG_STRIP_UNLIKELY \cup FLAG_CLASS_WEIGHT \cup FLAG_CLEAN_CONDITIONALLY

-----------------------------------------------------------------------------
(* Classifier and class weight                                             *)

is_unlikely(fl, d, n) ==
    IF fl \cap FLAG_STRIP_UNLIKELY = {} THEN FALSE
    ELSE IF d[n].tag = "body" THEN FALSE
    ELSE /\ (RE_UNLIKELY_search(d[n].cls) \/ RE_UNLIKELY_search(d[n].id))
         /\ ~(RE_MAYBE_search(d[n].cls) \/ RE_MAYBE_search(d[n].id))

is_readable(d, n) == d[n].readable

get_class_weight(fl, d, n) ==
    IF fl \cap FLAG_CLASS_WEIGHT = {} THEN 0
    ELSE (IF d[n].cls # "" /\ RE_NEGATIVE_search(d[n].cls) THEN -25 ELSE 0)
       + (IF d[n].cls # "" /\ RE_POSITIVE_search(d[n].cls) THEN 25 ELSE 0)
       + (IF d[n].id # "" /\ RE_NEGATIVE_search(d[n].id) THEN -25 ELSE 0)
       + (IF d[n].id # "" /\ RE_POSITIVE_search(d[n].id) THEN 25 ELSE 0)

\* the score that initialize_node gives by tag
TagScore(tag) ==
    IF tag = "div" THEN 5
    ELSE IF tag \in {"pre", "td", "blockquote"} THEN 3
    ELSE IF tag \in {"address", "ol", "ul", "dl", "dd", "dt", "li", "form"} THEN -3
    ELSE IF tag \in {"h1", "h2", "h3", "h4", "h5", "h6", "th"} THEN -5
    ELSE 0

\* node.readable = Bag(score=score); scores are fractions num / den, den > 0
initialize_node(fl, d, n) ==
    IF n = None THEN d
    ELSE [d EXCEPT ![n].readable = TRUE,
                   ![n].num = TagScore(d[n].tag) + get_class_weight(fl, d, n),
                   ![n].den = 1]

-----------------------------------------------------------------------------
(* Tree rewriters                                                          *)

\* a new detached element at the end of the heap: the heap and the element
New(d, e) == [d |-> Append(d, e), r |-> Len(d) + 1]

\* AppendPara without "c.text = ...": the new <p> is appended empty
AppendPara_NoText(d, p, t) ==
    LET c == New(d, Element("p", "", "", "", FALSE))
    IN append(c.d, p, c.r)

\* a new <p> holding the text t, appended to the element p
AppendPara(d, p, t) ==
    LET c == New(d, [Element("p", "", "", "", FALSE) EXCEPT !.text = t])
    IN append(c.d, p, c.r)

RECURSIVE node_copy(_, _)
RECURSIVE CopyKids(_, _, _)
\* a deep copy of n: the heap with the copy in it, and the copy
node_copy(d, n) ==
    LET newn == New(d, [Element(d[n].tag, d[n].cls, d[n].id, d[n].src, d[n].style)
                           EXCEPT !.text = d[n].text, !.tail = d[n].tail])
    IN [d |-> CopyKids(newn.d, newn.r, d[n].kids), r |-> newn.r]
CopyKids(d, newn, ks) ==
    IF ks = <<>> THEN d
    ELSE LET newc == node_copy(d, Head(ks))
         IN CopyKids(append(newc.d, newn, newc.r), newn, Tail(ks))

RECURSIVE BrsChildren(_, _, _)
\* the loop of convert_brs over the children ks of the node, filling newn
BrsChildren(d, newn, ks) ==
    IF ks = <<>> THEN d
    ELSE LET n == Head(ks)
             d1 == IF d[n].tag = "br"
                   THEN IF Strip(d[n].tail) THEN AppendPara(d, newn, d[n].tail) ELSE d
                   ELSE LET da == append(d, newn, n)
                        IN IF Strip(d[n].tail)
                           THEN AppendPara([da EXCEPT ![n].tail = <<>>], newn, d[n].tail)
                           ELSE da
         IN BrsChildren(d1, newn, Tail(ks))

\* the part of convert_brs that runs when the node has a <br> child: the
\* heap after node.getparent().replace(node, newn), and newn
BrsReplace(d, node) ==
    LET e == New(d, Element(d[node].tag, d[node].cls, d[node].id, d[node].src,
                            d[node].style))
        newn == e.r
        d1 == IF Strip(d[node].text)
              THEN AppendPara([e.d EXCEPT ![node].text = <<>>], newn, d[node].text)
              ELSE e.d
        d2 == BrsChildren(d1, newn, d[node].kids)
        d3 == IF Strip(d[node].tail) THEN AppendPara(d2, newn, d[node].tail) ELSE d2
    IN [d |-> replace(d3, node, newn), r |-> newn]

RECURSIVE convert_brs(_, _)
RECURSIVE BrsRecurse(_, _)
\* convert_brs(node) of a node that has a parent: the heap and the returned node
convert_brs(d, node) ==
    LET has_br == \E i \in DOMAIN d[node].kids : d[d[node].kids[i]].tag = "br"
        s == IF has_br THEN BrsReplace(d, node) ELSE [d |-> d, r |-> node]
    IN [d |-> BrsRecurse(s.d, s.d[s.r].kids), r |-> s.r]
BrsRecurse(d, ks) ==
    IF ks = <<>> THEN d ELSE BrsRecurse(convert_brs(d, Head(ks)).d, Tail(ks))

RECURSIVE ParaChildren(_, _, _)
\* the loop of _paragraphize_text over the children ks: the heap and the
\* new paragraphs, in order
ParaChildren(s, newn, ks) ==
    IF ks = <<>> THEN s
    ELSE LET c == Head(ks)
             da == append(s.d, newn, c)
             s1 == IF s.d[c].tail # <<>>
                   THEN LET db == AppendPara([da EXCEPT ![c].tail = <<>>], newn,
                                             s.d[c].tail)
                        IN [d |-> db, r |-> Append(s.r, Len(db))]
                   ELSE [d |-> da, r |-> s.r]
         IN ParaChildren(s1, newn, Tail(ks))

\* _paragraphize_text(node): the heap and the list to_score it returns
_paragraphize_text(d, node) ==
    LET e == New(d, Element(d[node].tag, d[node].cls, d[node].id, d[node].src,
                            d[node].style))
        newn == e.r
        s1 == IF d[node].text # <<>>
              THEN LET db == AppendPara([e.d EXCEPT ![node].text = <<>>], newn,
                                        d[node].text)
                   IN [d |-> db, r |-> <<Len(db)>>]
              ELSE [d |-> e.d, r |-> <<>>]
        s2 == ParaChildren(s1, newn, d[node].kids)
        s3 == IF d[node].tail # <<>>
              THEN LET db == AppendPara([s2.d EXCEPT ![node].tail = <<>>], newn,
                                        d[node].tail)
                   IN [d |-> db, r |-> Append(s2.r, Len(db))]
              ELSE s2
    IN [d |-> replace(s3.d, node, newn), r |-> s3.r]

-----------------------------------------------------------------------------
(* Cleaner dispatch                                                        *)

\* clean_styles(node): no element of the subtree keeps a style attribute
clean_styles(d, node) ==
    LET sub == {node} \cup Range(iterdescendants(d, node))
    IN [i \in DOMAIN d |-> IF i \in sub THEN [d[i] EXCEPT !.style = FALSE] ELSE d[i]]

\* '|'.join(n.attrib.values()) matches RE_VIDEOS
HasVideoValue(d, n) ==
    \/ RE_VIDEOS_search(d[n].src)
    \/ RE_VIDEOS_search(d[n].cls)
    \/ RE_VIDEOS_search(d[n].id)

RECURSIVE CleanLoop(_, _, _)
\* the loop of clean over its targets
CleanLoop(d, targets, is_embed) ==
    IF targets = <<>> THEN d
    ELSE LET n == Head(targets)
         IN IF is_embed /\ HasVideoValue(d, n)
            THEN CleanLoop(d, Tail(targets), is_embed)
            ELSE CleanLoop(remove(d, n), Tail(targets), is_embed)

clean(d, node, tag) == CleanLoop(d, xpath(d, node, {tag}), tag \in {"object", "embed"})

\* a / b > p / q for fractions with positive denominators
FracGreater(a, b, p, q) == a * q > p * b

\* the numbers clean_conditionally takes of a target n
CondMetrics(fl, d, n) ==
    [weight |-> get_class_weight(fl, d, n),
     num_p |-> Len(xpath(d, n, {"p"})),
     num_img |-> Len(xpath(d, n, {"img"})),
     num_li |-> Len(xpath(d, n, {"li"})) - 100,
     num_input |-> Len(xpath(d, n, {"input"})),
     num_embeds |-> Len(SelectSeq(xpath(d, n, {"embed"}),
                                  LAMBDA em : RE_VIDEOS_search(d[em].src))),
     link_density |-> get_link_density(d, n),
     len_content |-> Len(get_inner_text(d, n, TRUE))]

\* to_remove with the link density limit of the light blocks (0.2) used for
\* the heavy ones (weight >= 25) too
to_remove_OneLimit(m, tag) ==
    IF m.num_img > m.num_p THEN TRUE
    ELSE IF m.num_li > m.num_p /\ tag \notin {"ul", "ol"} THEN TRUE
    ELSE IF m.num_input > m.num_p \div 3 THEN TRUE
    ELSE IF m.len_content < 25 /\ (m.num_img = 0 \/ m.num_img > 2) THEN TRUE
    ELSE IF FracGreater(m.link_density.num, m.link_density.den, 2, 10) THEN TRUE
    ELSE IF (m.num_embeds = 1 /\ m.len_content < 75) \/ m.num_embeds > 1 THEN TRUE
    ELSE FALSE

\* to_remove of clean_conditionally, for a target with fewer than 10 commas
to_remove(m, tag) ==
    IF m.num_img > m.num_p THEN TRUE
    ELSE IF m.num_li > m.num_p /\ tag \notin {"ul", "ol"} THEN TRUE
    ELSE IF m.num_input > m.num_p \div 3 THEN TRUE
    ELSE IF m.len_content < 25 /\ (m.num_img = 0 \/ m.num_img > 2) THEN TRUE
    ELSE IF m.weight < 25 /\ FracGreater(m.link_density.num, m.link_density.den, 2, 10)
         THEN TRUE
    ELSE IF m.weight >= 25 /\ FracGreater(m.link_density.num, m.link_density.den, 5, 10)
         THEN TRUE
    ELSE IF (m.num_embeds = 1 /\ m.len_content < 75) \/ m.num_embeds > 1 THEN TRUE
    ELSE FALSE

\* whether the body of the loop of clean_conditionally removes the target n
CondRemoves(fl, d, n, tag) ==
    LET weight == get_class_weight(fl, d, n)
        \* weight + score < 0, score the fraction num / den (0 if not readable)
        negative == IF is_readable(d, n) THEN weight * d[n].den + d[n].num < 0
                    ELSE weight < 0
    IN IF negative THEN TRUE
       ELSE IF get_char_count(d, n, ",") < 10 THEN to_remove(CondMetrics(fl, d, n), tag)
       ELSE FALSE

RECURSIVE CondLoop(_, _, _, _, _)
\* the loop of clean_conditionally over its targets
CondLoop(fl, d, node, nodes, tag) ==
    IF nodes = <<>> THEN d
    ELSE LET n == Head(nodes)
         IN IF n = node THEN CondLoop(fl, d, node, Tail(nodes), tag)
            ELSE IF CondRemoves(fl, d, n, tag)
                 THEN CondLoop(fl, remove(d, n), node, Tail(nodes), tag)
                 ELSE CondLoop(fl, d, node, Tail(nodes), tag)

clean_conditionally(fl, d, node, tag) ==
    IF fl \cap FLAG_CLEAN_CONDITIONALLY = {} THEN d
    ELSE CondLoop(fl, d, node, xpath(d, node, {tag}), tag)

RECURSIVE HeadersLoop(_, _, _)
\* the inner loop of clean_headers over the headers of one level
HeadersLoop(fl, d, hs) ==
    IF hs = <<>> THEN d
    ELSE LET n == Head(hs)
             cw == get_class_weight(fl, d, n)
             ld == get_link_density(d, n)
         IN IF cw < 0 \/ FracGreater(ld.num, ld.den, 33, 100)
            THEN HeadersLoop(fl, remove(d, n), Tail(hs))
            ELSE HeadersLoop(fl, d, Tail(hs))

\* clean_headers: 'h%d' % i for i in range(0, 3)
clean_headers(fl, d, node) ==
    LET d0 == HeadersLoop(fl, d, xpath(d, node, {"h0"}))
        d1 == HeadersLoop(fl, d0, xpath(d0, node, {"h1"}))
    IN HeadersLoop(fl, d1, xpath(d1, node, {"h2"}))

\* python's == between a list and an int: False, whatever they hold
ListEqualsInt(list, k) == FALSE

RECURSIVE ExtraParas(_, _)
\* the last loop of prep_article ("remove extra paragraphs")
ExtraParas(d, ps) ==
    IF ps = <<>> THEN d
    ELSE LET n == Head(ps)
             num_img == xpath(d, n, {"img"})
             num_embed == xpath(d, n, {"embed"})
             num_object == xpath(d, n, {"object"})
         IN IF /\ ListEqualsInt(num_img, 0)
               /\ ListEqualsInt(num_embed, 0)
               /\ ListEqualsInt(num_object, 0)
               /\ get_inner_text(d, n, FALSE) # <<>>
            THEN ExtraParas(remove(d, n), Tail(ps))
            ELSE ExtraParas(d, Tail(ps))

prep_article(fl, d, content) ==
    LET d1 == clean_styles(d, content)
        d2 == clean_conditionally(fl, d1, content, "form")
        d3 == clean(d2, content, "object")
        d4 == clean(d3, content, "h1")
        d5 == IF Len(xpath(d4, content, {"h2"})) = 1 THEN clean(d4, content, "h2") ELSE d4
        d6 == clean(d5, content, "iframe")
        d7 == clean_headers(fl, d6, content)
        d8 == clean_conditionally(fl, d7, content, "table")
        d9 == clean_conditionally(fl, d8, content, "ul")
        d10 == clean_conditionally(fl, d9, content, "div")
    IN ExtraParas(d10, xpath(d10, content, {"p"}))

-----------------------------------------------------------------------------
(* Scores: fractions num / den with den > 0                                *)

Frac(n, d) == [num |-> n, den |-> d]
FracAdd(a, b) == Frac(a.num * b.den + b.num * a.den, a.den * b.den)
FracMul(a, b) == Frac(a.num * b.num, a.den * b.den)
FracLess(a, b) == a.num * b.den < b.num * a.den
FracMax(a, b) == IF FracLess(a, b) THEN b ELSE a
ScoreOf(d, n) == Frac(d[n].num, d[n].den)
SetScore(d, n, f) == [d EXCEPT ![n].num = f.num, ![n].den = f.den]

-----------------------------------------------------------------------------
(* NodeIter and select_scorable                                            *)

\* './/a|.//blockquote|...': XPATH_REPL_PARAS
_REPL_PARAS == {"a", "blockquote", "dl", "div", "img", "ol", "p", "pre", "table", "ul"}

\* NodeIter(root) and the locals of select_scorable as it starts; visits is
\* the list of the nodes next() has returned
NodeIter(d, root) ==
    [pc |-> "loop", d |-> d, root |-> root, nodes |-> iterdescendants(d, root),
     idx |-> 0, current |-> None, to_score |-> <<>>, visits |-> <<>>]

\* NodeIter.remove
NodeIter_remove(st) ==
    IF st.current = None THEN st
    ELSE IF getparent(st.d, st.current) = None THEN [st EXCEPT !.pc = "raised"]
    ELSE LET d1 == remove(st.d, st.current)
         IN [st EXCEPT !.d = d1, !.nodes = iterdescendants(d1, st.root),
                       !.idx = st.idx - 1]

\* the body of the loop of select_scorable for the node n that next() gave
ScorableBody(fl, st, n) ==
    IF is_unlikely(fl, st.d, n) THEN NodeIter_remove(st)
    ELSE LET s1 == IF st.d[n].tag \in {"p", "td", "pre"}
                   THEN [st EXCEPT !.to_score = Append(@, n)]
                   ELSE st
         IN IF s1.d[n].tag # "div" THEN s1
            ELSE IF getparent(s1.d, n) = None THEN [s1 EXCEPT !.pc = "raised"]
            ELSE IF xpath(s1.d, n, _REPL_PARAS) = <<>>
                 THEN LET c == node_copy(s1.d, n)
                          newn == c.r
                          d1 == [c.d EXCEPT ![newn].tag = "p"]
                      IN [s1 EXCEPT !.d = replace(d1, n, newn),
                                    !.to_score = @ \o <<n, newn>>]
                 ELSE LET ps == _paragraphize_text(s1.d, n)
                      IN [s1 EXCEPT !.d = ps.d, !.to_score = @ \o ps.r]

\* one turn of "for idx, n in nodeiter": NodeIter.next and the loop body
ScorableStep(fl, st) ==
    IF st.idx >= Len(st.nodes) THEN [st EXCEPT !.pc = "stop"]
    ELSE LET node == st.nodes[st.idx + 1]
             s1 == [st EXCEPT !.current = node, !.idx = st.idx + 1,
                              !.visits = Append(@, node)]
         IN ScorableBody(fl, s1, node)

RECURSIVE ScorableLoop(_, _)
ScorableLoop(fl, st) ==
    IF st.pc # "loop" THEN st ELSE ScorableLoop(fl, ScorableStep(fl, st))

\* select_scorable(node): the locals as the loop ends (pc "stop") or raises
select_scorable(fl, d, node) == ScorableLoop(fl, NodeIter(d, node))

-----------------------------------------------------------------------------
(* Scorer                                                                  *)

\* the body of the loop of score_paras for the node n; s holds the heap d
\* and the list candidates
ScoreOne(fl, s, n) ==
    LET d == s.d
        parent == getparent(d, n)
        gparent == IF parent # None THEN getparent(d, parent) ELSE None
        text == get_inner_text(d, n, TRUE)
    IN IF parent = None THEN s
       ELSE IF Len(text) < 25 THEN s
       ELSE LET initp == ~is_readable(d, parent)
                d1 == IF initp THEN initialize_node(fl, d, parent) ELSE d
                c1 == IF initp THEN Append(s.candidates, parent) ELSE s.candidates
                initg == gparent # None /\ ~is_readable(d1, gparent)
                d2 == IF initg THEN initialize_node(fl, d1, gparent) ELSE d1
                c2 == IF initg THEN Append(c1, gparent) ELSE c1
                lim == IF Len(text) \div 100 < 3 THEN Len(text) \div 100 ELSE 3
                score == 1 + (Count(text, ",") + 1) + lim
                d3 == SetScore(d2, parent, FracAdd(ScoreOf(d2, parent), Frac(score, 1)))
                d4 == IF gparent # None
                      THEN SetScore(d3, gparent,
                                    FracAdd(ScoreOf(d3, gparent), Frac(score, 2)))
                      ELSE d3
            IN [d |-> d4, candidates |-> c2]

RECURSIVE ScoreLoop(_, _, _)
ScoreLoop(fl, s, nodes) ==
    IF nodes = <<>> THEN s ELSE ScoreLoop(fl, ScoreOne(fl, s, Head(nodes)), Tail(nodes))

RECURSIVE TopLoop_LastWins(_, _)
\* TopLoop with ">=" for ">": of candidates with equal scores the last wins
TopLoop_LastWins(s, cs) ==
    IF cs = <<>> THEN s
    ELSE LET n == Head(cs)
             ld == get_link_density(s.d, n)
             d1 == SetScore(s.d, n,
                            FracMul(ScoreOf(s.d, n), Frac(ld.den - ld.num, ld.den)))
             top == IF s.top = None \/ ~FracLess(ScoreOf(d1, n), ScoreOf(d1, s.top))
                    THEN n ELSE s.top
         IN TopLoop_LastWins([d |-> d1, top |-> top], Tail(cs))

RECURSIVE TopLoop(_, _)
\* the first loop of _select_top over the candidates cs; s holds the heap d
\* and top
TopLoop(s, cs) ==
    IF cs = <<>> THEN s
    ELSE LET n == Head(cs)
             ld == get_link_density(s.d, n)
             d1 == SetScore(s.d, n,
                            FracMul(ScoreOf(s.d, n), Frac(ld.den - ld.num, ld.den)))
             top == IF s.top = None \/ FracLess(ScoreOf(d1, s.top), ScoreOf(d1, n))
                    THEN n ELSE s.top
         IN TopLoop([d |-> d1, top |-> top], Tail(cs))

RECURSIVE MoveAll(_, _, _)
\* "for n in ks: p.append(n)"
MoveAll(d, p, ks) == IF ks = <<>> THEN d ELSE MoveAll(append(d, p, Head(ks)), p, Tail(ks))

\* SiblingAppends without the bonus for the class of top
SiblingAppends_NoBonus(d, top, n) ==
    LET fifth == FracMul(ScoreOf(d, top), Frac(2, 10))
        sib_thresh == FracMax(Frac(10, 1), fifth)
        link_density == get_link_density(d, n)
        text == get_inner_text(d, n, TRUE)
        text_len == Len(text)
    IN \/ n = top
       \/ is_readable(d, n) /\ ~FracLess(ScoreOf(d, n), sib_thresh)
       \/ /\ d[n].tag = "p"
          /\ \/ text_len > 80 /\ FracLess(link_density, Frac(25, 100))
             \/ text_len < 80 /\ link_density.num = 0 /\ RE_SENT_search(text)

\* whether the sibling loop of _select_top appends the sibling n
SiblingAppends(d, top, n) ==
    LET fifth == FracMul(ScoreOf(d, top), Frac(2, 10))
        sib_thresh == FracMax(Frac(10, 1), fifth)
        bonus == IF d[n].cls = d[top].cls /\ d[top].cls # "" THEN fifth ELSE Frac(0, 1)
        link_density == get_link_density(d, n)
        text == get_inner_text(d, n, TRUE)
        text_len == Len(text)
    IN \/ n = top
       \/ is_readable(d, n) /\ ~FracLess(FracAdd(ScoreOf(d, n), bonus), sib_thresh)
       \/ /\ d[n].tag = "p"
          /\ \/ text_len > 80 /\ FracLess(link_density, Frac(25, 100))
             \/ text_len < 80 /\ link_density.num = 0 /\ RE_SENT_search(text)

RECURSIVE SiblingLoop(_, _, _, _)
\* the sibling loop of _select_top over the children ks of top's parent
SiblingLoop(d, top, content, ks) ==
    IF ks = <<>> THEN d
    ELSE LET n == Head(ks)
         IN IF SiblingAppends(d, top, n)
            THEN LET d1 == IF d[n].tag \notin {"div", "p"}
                           THEN [d EXCEPT ![n].tag = "div"] ELSE d
                 IN SiblingLoop(append(d1, content, n), top, content, Tail(ks))
            ELSE SiblingLoop(d, top, content, Tail(ks))

\* "if top is None or top.tag == 'body'": the new <div> that takes the
\* children of the body and becomes top; c is the heap with the new content
\* <div> in it
TopFallback(fl, c, body) ==
    LET t == New(c.d, Element("div", "", "", "", FALSE))
        d1 == MoveAll(t.d, t.r, getchildren(t.d, body))
        d2 == append(d1, body, t.r)
        d3 == initialize_node(fl, d2, t.r)
        d4 == initialize_node(fl, d3, body)
    IN [d |-> d4, content |-> c.r, top |-> t.r]

\* s is what the first loop left (heap and top), c the heap with the new
\* content <div> in it
TopOrFallback(fl, s, c, body) ==
    IF s.top = None \/ c.d[s.top].tag = "body"
    THEN TopFallback(fl, c, body)
    ELSE [d |-> c.d, content |-> c.r, top |-> s.top]

\* "content = Element('div')" after the first loop
WithContent(fl, s, body) ==
    TopOrFallback(fl, s, New(s.d, Element("div", "", "", "", FALSE)), body)

\* the top that _select_top settles on before it looks at the siblings: the
\* heap, the new content <div> and top
ChooseTop(fl, d, candidates, body) ==
    WithContent(fl, TopLoop([d |-> d, top |-> None], candidates), body)

\* the rest of _select_top once top is settled (s): the sibling loop and
\* prep_article; it raises when top.getparent() is None, None having no
\* getchildren
SelectSiblings(fl, s, parent) ==
    IF parent = None
    THEN [d |-> s.d, content |-> None, top |-> s.top, raised |-> TRUE]
    ELSE [d |-> prep_article(fl,
                             SiblingLoop(s.d, s.top, s.content, getchildren(s.d, parent)),
                             s.content),
          content |-> s.content, top |-> s.top, raised |-> FALSE]

SelectFrom(fl, s) == SelectSiblings(fl, s, getparent(s.d, s.top))

\* _select_top: the heap, the content, top, and whether it raised
_select_top(fl, d, candidates, body) ==
    SelectFrom(fl, ChooseTop(fl, d, candidates, body))

\* the end of score_paras: s holds the heap and the candidates
SelectScored(fl, s, body) == _select_top(fl, s.d, s.candidates, body)

score_paras(fl, d, nodes, body) ==
    SelectScored(fl, ScoreLoop(fl, [d |-> d, candidates |-> <<>>], nodes), body)

-----------------------------------------------------------------------------
(* Document preparation and the extraction controller                      *)

RECURSIVE RemoveAll(_, _)
RemoveAll(d, ks) == IF ks = <<>> THEN d ELSE RemoveAll(remove(d, Head(ks)), Tail(ks))

\* prep_document on the parsed and cleaned tree whose root is tree: the heap
\* and the body
prep_document(d, tree) ==
    LET found == SelectSeq(getchildren(d, tree), LAMBDA k : d[k].tag = "body")
        s == IF found = <<>>
             THEN LET b == New(d, Element("body", "", "", "", FALSE))
                      d1 == MoveAll(b.d, b.r, getchildren(b.d, tree))
                  IN [d |-> append(d1, tree, b.r), r |-> b.r]
             ELSE [d |-> d, r |-> Head(found)]
        body == s.r
        d2 == [s.d EXCEPT ![body].id = "readableBody"]
        others == SelectSeq(getchildren(d2, getparent(d2, body)),
                            LAMBDA k : d2[k].tag # "body")
    IN convert_brs(RemoveAll(d2, others), body)

\* _grab_article(data): the heap, the content and whether it raised
\* "return self.score_paras(to_score, body)", unless select_scorable raised
GrabScore(fl, sel, body) ==
    IF sel.pc = "raised"
    THEN [d |-> sel.d, content |-> None, top |-> None, raised |-> TRUE]
    ELSE score_paras(fl, sel.d, sel.to_score, body)

\* "to_score = self.select_scorable(body)", b the prepared heap and its body
GrabSelect(fl, b) == GrabScore(fl, select_scorable(fl, b.d, b.r), b.r)

_grab_article(fl, d, tree) == GrabSelect(fl, prep_document(d, tree))

\* "flags = list(self.FLAGS); flags.reverse()": pop() takes the last one
ReversedFlags == [i \in DOMAIN FLAGS |-> FLAGS[Len(FLAGS) + 1 - i]]

\* the loop test with a digit of the limit lost
GrabLoopTest_Short(textlen) == textlen < 25

\* "while len(text) < 250"
GrabLoopTest(textlen) == textlen < 250

\* the locals of grab_article as its loop starts; passes and lens are the
\* flag words the passes ran with and the text lengths of their contents
GrabStart(calls, tree) ==
    [calls |-> calls, tree |-> tree, flags |-> ReversedFlags, content |-> None,
     textlen |-> 0, passes |-> <<>>, lens |-> <<>>]

-----------------------------------------------------------------------------
(* The state outside an operation                                          *)

NoIter == [pc |-> "none"]
NoCtl == [calls |-> 0]
NoOut == [op |-> "none"]

-----------------------------------------------------------------------------
(* get_link_density on parsed fragments                                    *)

\* the texts of the fragments: nothing, a word, a word and a space
ShortTexts == {<<>>, <<"x">>, <<"x", " ">>}

\* <div>t0<a>t1</a>t2<a>t3</a>t4</div>
TwoLinks(t0, t1, t2, t3, t4) ==
    << El("div", "", "", t0, <<>>, None, <<2, 3>>),
       El("a", "", "", t1, t2, 1, <<>>),
       El("a", "", "", t3, t4, 1, <<>>) >>

TextDocs ==
    {TwoLinks(t0, t1, t2, t3, t4) : t0 \in ShortTexts, t1 \in ShortTexts,
        t2 \in ShortTexts, t3 \in ShortTexts, t4 \in ShortTexts}

InitText ==
    /\ dom \in TextDocs
    /\ flags = InitFlags
    /\ pc = "text"
    /\ data = 1
    /\ it = NoIter
    /\ ctl = NoCtl
    /\ out = NoOut

\* self.get_link_density(node) on a node of the fragment
LinkDensity ==
    /\ pc = "text"
    /\ \E n \in DOMAIN dom :
          out' = [op |-> "get_link_density", node |-> n,
                  density |-> get_link_density(dom, n),
                  textlen |-> Len(get_inner_text(dom, n, TRUE))]
    /\ UNCHANGED <<dom, flags, pc, data, it, ctl>>

NextText == LinkDensity

SpecText == InitText /\ [][NextText]_vars

\* C5: whenever get_link_density(n) has been computed, the summed normalized
\* text length of the <a> descendants of n is at least 0 and at most the
\* normalized text length of n (the density lies in [0, 1]), and it is 0
\* when the inner text of n is empty.
C5_DensityInUnitInterval ==
    out.op = "get_link_density" =>
        /\ 0 <= out.density.num
        /\ out.density.num <= out.density.den
        /\ (out.textlen = 0 => out.density.num = 0)

-----------------------------------------------------------------------------
(* convert_brs on parsed fragments                                         *)

\* a text slot holds nothing, blank text, or a word of its own
Slot(c) == {<<>>, <<" ">>, <<c>>}

\* <body><div id=post>t0<k3>....</div>tt</body> with k3 a <br> or a <span>
\* and k6 a <br> or a <b>:
\*   <div>t0 <k3/>t1 <br/>t2 <span>t3 <k6/>t6 </span>t4 </div>tt
BrDoc(k3, k6, t0, t1, t2, t3, t4, t6, tt) ==
    << El("body", "", "readableBody", <<>>, <<>>, None, <<2>>),
       El("div", "post", "", t0, tt, 1, <<3, 4, 5>>),
       El(k3, "", "", <<>>, t1, 2, <<>>),
       El("br", "", "", <<>>, t2, 2, <<>>),
       El("span", "main", "", t3, t4, 2, <<6>>),
       El(k6, "", "", <<>>, t6, 5, <<>>) >>

\* <body><div>one<br>two<br><br>three</div></body>
BrExample ==
    << El("body", "", "", <<>>, <<>>, None, <<2>>),
       El("div", "", "", <<"o", "n", "e">>, <<>>, 1, <<3, 4, 5>>),
       El("br", "", "", <<>>, <<"t", "w", "o">>, 2, <<>>),
       El("br", "", "", <<>>, <<>>, 2, <<>>),
       El("br", "", "", <<>>, <<"t", "h", "r", "e", "e">>, 2, <<>>) >>

BrDocs ==
    {BrDoc(k3, k6, t0, t1, t2, t3, <<"e">>, t6, tt) :
        k3 \in {"br", "span"}, k6 \in {"br", "b"}, t0 \in Slot("a"),
        t1 \in Slot("b"), t2 \in Slot("c"), t3 \in Slot("d"),
        t6 \in Slot("f"), tt \in Slot("g")}
    \cup {BrExample}

InitBrs ==
    /\ dom \in BrDocs
    /\ flags = InitFlags
    /\ pc = "brs"
    /\ data = 2
    /\ it = NoIter
    /\ ctl = NoCtl
    /\ out = NoOut

\* self.convert_brs(node) on the <div> of the fragment
ConvertBrs ==
    /\ pc = "brs"
    /\ getparent(dom, data) # None
    /\ LET s == convert_brs(dom, data)
       IN /\ dom' = s.d
          /\ out' = [op |-> "convert_brs", node |-> data, r |-> s.r, before |-> dom]
    /\ pc' = "done"
    /\ UNCHANGED <<flags, data, it, ctl>>

NextBrs == ConvertBrs

SpecBrs == InitBrs /\ [][NextBrs]_vars

RECURSIVE TextRuns(_, _)
RECURSIVE RunsOfKids(_, _)
\* the non-blank text runs of the subtree of n (its own tail included), in
\* document order
TextRuns(d, n) ==
    (IF Strip(d[n].text) THEN <<d[n].text>> ELSE <<>>)
    \o RunsOfKids(d, d[n].kids)
    \o (IF Strip(d[n].tail) THEN <<d[n].tail>> ELSE <<>>)
RunsOfKids(d, ks) ==
    IF ks = <<>> THEN <<>> ELSE TextRuns(d, Head(ks)) \o RunsOfKids(d, Tail(ks))

\* what a child of the result is: a paragraph with its text, or an element
\* with its tag
Shape(d, k) == IF d[k].tag = "p" THEN <<"p", d[k].text>> ELSE <<"el", d[k].tag>>

RECURSIVE ClaimedChildren(_, _)
\* the children the claim lists for the children ks of the input node: each
\* non-<br> child, and a <p> for each non-blank tail
ClaimedChildren(d, ks) ==
    IF ks = <<>> THEN <<>>
    ELSE LET k == Head(ks)
         IN (IF d[k].tag = "br" THEN <<>> ELSE <<Shape(d, k)>>)
            \o (IF Strip(d[k].tail) THEN << <<"p", d[k].tail>> >> ELSE <<>>)
            \o ClaimedChildren(d, Tail(ks))

\* the children of the result as the claim lists them, with or without a
\* last <p> for the node's own tail
Claimed(d, n, withTail) ==
    (IF Strip(d[n].text) THEN << <<"p", d[n].text>> >> ELSE <<>>)
    \o ClaimedChildren(d, d[n].kids)
    \o (IF withTail /\ Strip(d[n].tail) THEN << <<"p", d[n].tail>> >> ELSE <<>>)

SameTagAndAttributes(a, b) ==
    /\ a.tag = b.tag /\ a.cls = b.cls /\ a.id = b.id
    /\ a.src = b.src /\ a.style = b.style

\* what C6 says of a finished convert_brs, the node's own tail counted among
\* the text runs that become a <p> (withTail) or not
BrsContract(withTail) ==
    out.op = "convert_brs" =>
        LET d0 == out.before
            n == out.node
            r == out.r
        IN /\ SameTagAndAttributes(dom[r], d0[n])
           /\ [i \in DOMAIN dom[r].kids |-> Shape(dom, dom[r].kids[i])]
                 = Claimed(d0, n, withTail)
           /\ xpath(dom, r, {"br"}) = <<>>
           /\ TextRuns(dom, r) = TextRuns(d0, n)
           /\ (d0 = BrExample =>
                 [i \in DOMAIN dom[r].kids |-> Shape(dom, dom[r].kids[i])]
                    = << <<"p", <<"o", "n", "e">> >>, <<"p", <<"t", "w", "o">> >>,
                         <<"p", <<"t", "h", "r", "e", "e">> >> >>)

\* C6 as stated: the result has the node's tag and attributes; its children
\* are the non-<br> children and one <p> per non-blank leading text, child
\* tail and <br> tail, in order; no <br> is left under it; every non-blank
\* text run is there once, in order; the example gives three <p>.
C6_BrsAsStated == BrsContract(FALSE)

\* C6 amended: as stated, with one more <p>, the last child, holding the
\* node's own tail when that is non-blank.
C6_BrsWithOwnTail == BrsContract(TRUE)

\* convert_brs has replaced a node that had leading text, a tail of its own,
\* a <br> child and a child that itself had a <br> child
C6_Witness ==
    /\ out.op = "convert_brs"
    /\ Strip(out.before[out.node].text)
    /\ Strip(out.before[out.node].tail)
    /\ out.before[3].tag = "br"
    /\ Len(out.before) >= 6
    /\ out.before[6].tag = "br"
    /\ Strip(out.before[6].tail)

-----------------------------------------------------------------------------
(* The cleaners on content as _select_top hands it to prep_article         *)

\* the flag words grab_article can have reached when a pass runs
PassFlags ==
    {InitFlags,
     InitFlags \ FLAG_STRIP_UNLIKELY,
     (InitFlags \ FLAG_STRIP_UNLIKELY) \ FLAG_CLASS_WEIGHT,
     ((InitFlags \ FLAG_STRIP_UNLIKELY) \ FLAG_CLASS_WEIGHT) \ FLAG_CLEAN_CONDITIONALLY}

\* a child of the block: its tag, its src attribute and its text
Kid(tag, src, text) == [tag |-> tag, src |-> src, text |-> text]

\* the media children a block may have
MediaKids ==
    { <<>>,
      <<Kid("embed", VideoUrl, <<>>)>>,
      <<Kid("embed", VideoUrl, <<>>), Kid("embed", VideoUrl, <<>>)>>,
      <<Kid("embed", OtherUrl, <<>>)>>,
      <<Kid("object", OtherUrl, <<>>), Kid("embed", VideoUrl, <<>>)>> }

\* the link a block may have: none, or one of 30 characters
LinkKids == { <<>>, <<Kid("a", "", Rep(<<"x">>, 30))>> }

\* the text of a block: 5 characters, 40 characters, 12 commas in 24 characters
BlockTexts == {Rep(<<"x">>, 5), Rep(<<"x">>, 40), Rep(<<"x", ",">>, 12)}

\* the score annotation a block may carry: none, -1, 30
Annotations == {"none", "minus", "plus"}

\* <div>                          the content (1)
\*   <div>                        the top candidate, annotated (2)
\*     <tag class=cls>text kids</tag>         the block (3) and its children
ContentDoc(tag, cls, ann, text, kids) ==
    << El("div", "", "", <<>>, <<>>, None, <<2>>),
       [El("div", "", "", <<>>, <<>>, 1, <<3>>) EXCEPT
           !.readable = TRUE, !.num = 20, !.den = 1, !.style = TRUE],
       [El(tag, cls, "", text, <<>>, 2, [i \in 1..Len(kids) |-> 3 + i]) EXCEPT
           !.readable = (ann # "none"),
           !.num = IF ann = "minus" THEN -1 ELSE IF ann = "plus" THEN 30 ELSE 0] >>
    \o [i \in 1..Len(kids) |->
           [El(kids[i].tag, "", "", kids[i].text, <<>>, 3, <<>>) EXCEPT
               !.src = kids[i].src]]

ContentDocs ==
    {ContentDoc(tag, cls, ann, text,
                Rep(<<Kid("p", "", <<"x">>)>>, np) \o Rep(<<Kid("img", "", <<>>)>>, nimg)
                \o Rep(<<Kid("input", "", <<>>)>>, ninput) \o media \o link) :
        tag \in {"div", "ul"}, cls \in {"", "post", "promo"}, ann \in Annotations,
        text \in BlockTexts, np \in {0, 3}, nimg \in {0, 1, 3}, ninput \in {0, 2},
        media \in MediaKids, link \in LinkKids}
    \cup
    {ContentDoc(tag, "", "none", Rep(<<"x">>, 40),
                Rep(<<Kid("p", "", <<"x">>)>>, np) \o Rep(<<Kid("li", "", <<>>)>>, nli)) :
        tag \in {"div", "ul"}, np \in {0, 3}, nli \in {101, 104}}

InitPrep ==
    /\ dom \in ContentDocs
    /\ flags \in PassFlags \ {InitFlags \ FLAG_STRIP_UNLIKELY}
    /\ pc = "content"
    /\ data = 1
    /\ it = NoIter
    /\ ctl = NoCtl
    /\ out = NoOut

\* self.clean_conditionally(node, tag), for the tags prep_article gives it,
\* on the content and on the block under it
CleanConditionally ==
    /\ pc = "content"
    /\ \E tag \in {"form", "table", "ul", "div"}, node \in {data, 2} :
          /\ (node = 2 => tag = dom[3].tag)
          /\ dom' = clean_conditionally(flags, dom, node, tag)
          /\ out' = [op |-> "clean_conditionally", node |-> node, tag |-> tag,
                     before |-> dom]
    /\ pc' = "cleaned"
    /\ UNCHANGED <<flags, data, it, ctl>>

\* self.prep_article(content)
PrepArticle ==
    /\ pc = "content"
    /\ dom' = prep_article(flags, dom, data)
    /\ out' = [op |-> "prep_article", node |-> data, before |-> dom]
    /\ pc' = "prepped"
    /\ UNCHANGED <<flags, data, it, ctl>>

NextPrep == CleanConditionally \/ PrepArticle

SpecPrep == InitPrep /\ [][NextPrep]_vars

\* n is in the tree under root
Under(d, root, n) == n \in Range(iterdescendants(d, root))

\* C7: in the content prep_article leaves, every <embed> with a video URL
\* whose enclosing elements were all kept is still there, and no <embed> or
\* <object> without a video URL is left.
C7_OnlyVideoEmbedsLeft ==
    out.op = "prep_article" =>
        LET d0 == out.before
            root == out.node
        IN /\ \A n \in Range(xpath(d0, root, {"embed"})) :
                 (/\ HasVideoValue(d0, n)
                  /\ Under(dom, root, d0[n].parent))
                 => Under(dom, root, n)
           /\ \A n \in Range(xpath(dom, root, {"embed", "object"})) :
                 HasVideoValue(dom, n)

\* C9: after prep_article no <p> is left under the content that has no
\* <img>, <embed> or <object> descendant and has non-empty inner text.
C9_NoTextOnlyParagraphLeft ==
    out.op = "prep_article" =>
        \A n \in Range(xpath(dom, out.node, {"p"})) :
            ~(/\ xpath(dom, n, {"img", "embed", "object"}) = <<>>
              /\ get_inner_text(dom, n, FALSE) # <<>>)

\* the elements that left their parent between the heaps d0 and d1
Removed(d0, d1) == {n \in DOMAIN d0 : d0[n].parent # None /\ d1[n].parent = None}

\* whether C8 has the target n removed: weight + score < 0, or fewer than 10
\* commas and one of the seven conditions
ClaimRemoves(fl, d, n, tag) ==
    LET w == get_class_weight(fl, d, n)
        negative == IF d[n].readable THEN w * d[n].den + d[n].num < 0 ELSE w < 0
        commas == Count(get_inner_text(d, n, TRUE), ",")
        num_p == Len(xpath(d, n, {"p"}))
        num_img == Len(xpath(d, n, {"img"}))
        num_li == Len(xpath(d, n, {"li"}))
        num_input == Len(xpath(d, n, {"input"}))
        num_embeds == Cardinality({e \in Range(xpath(d, n, {"embed"})) :
                                      RE_VIDEOS_search(d[e].src)})
        content_len == Len(get_inner_text(d, n, TRUE))
        ld == get_link_density(d, n)
    IN \/ negative
       \/ /\ ~negative
          /\ commas < 10
          /\ \/ num_img > num_p
             \/ (num_li - 100) > num_p /\ tag \notin {"ul", "ol"}
             \/ num_input > num_p \div 3
             \/ content_len < 25 /\ (num_img = 0 \/ num_img > 2)
             \/ w < 25 /\ ld.num * 10 > 2 * ld.den
             \/ w >= 25 /\ ld.num * 10 > 5 * ld.den
             \/ (num_embeds = 1 /\ content_len < 75) \/ num_embeds > 1

\* C8: clean_conditionally(root, tag) changes nothing when CLEAN_CONDITIONALLY
\* is off and never removes root; when the flag is on it takes from its
\* parent exactly the tag-descendants n of root with weight + score < 0 or
\* with fewer than 10 commas and one of the seven conditions (so none with
\* weight + score >= 0 and 10 commas or more), and changes nothing else.
C8_CleanConditionally ==
    out.op = "clean_conditionally" =>
        LET d0 == out.before
            root == out.node
            targets == Range(xpath(d0, root, {out.tag}))
            gone == Removed(d0, dom)
        IN /\ (flags \cap FLAG_CLEAN_CONDITIONALLY = {} => dom = d0)
           /\ root \notin gone
           /\ gone \subseteq targets
           /\ (flags \cap FLAG_CLEAN_CONDITIONALLY # {} =>
                 \A n \in targets : n \in gone <=> ClaimRemoves(flags, d0, n, out.tag))
           /\ \A n \in targets \ gone :
                 dom[n].parent = d0[n].parent
           /\ \A n \in DOMAIN d0 :
                 /\ dom[n].kids = SelectSeq(d0[n].kids, LAMBDA k : k \notin gone)
                 /\ [dom[n] EXCEPT !.kids = <<>>, !.parent = None]
                       = [d0[n] EXCEPT !.kids = <<>>, !.parent = None]

\* clean_conditionally, with the flag on, has removed a block of weight 25
\* whose weight + score is not negative, and kept the block around it
C8_Witness ==
    /\ out.op = "clean_conditionally"
    /\ flags \cap FLAG_CLEAN_CONDITIONALLY # {}
    /\ out.node = 1
    /\ 3 \in Removed(out.before, dom)
    /\ 2 \notin Removed(out.before, dom)
    /\ get_class_weight(flags, out.before, 3) = 25
    /\ out.before[3].readable
    /\ out.before[3].num > 0

-----------------------------------------------------------------------------
(* select_scorable, one turn of its loop at a time                         *)

\* <html><body>
\*   <div class=c3>t3 <p>x</p>t4 <span class=c5>x</span> <div class=c6>x</div></div>
\*   <p class=c7>x</p>
\* </body></html>
IterDoc(t3, t4, c3, c5, c6, c7) ==
    << El("html", "", "", <<>>, <<>>, None, <<2>>),
       El("body", "", "readableBody", <<>>, <<>>, 1, <<3, 7>>),
       El("div", c3, "", t3, <<>>, 2, <<4, 5, 6>>),
       El("p", "", "", <<"x">>, t4, 3, <<>>),
       El("span", c5, "", <<"x">>, <<>>, 3, <<>>),
       El("div", c6, "", <<"x">>, <<>>, 3, <<>>),
       El("p", c7, "", <<"x">>, <<>>, 2, <<>>) >>

IterDocs ==
    {IterDoc(t3, t4, c3, c5, c6, c7) :
        t3 \in {<<>>, <<"x">>}, t4 \in {<<>>, <<"x">>}, c3 \in {"", "comment"},
        c5 \in {"", "comment"}, c6 \in {"", "comment"}, c7 \in {"", "comment"}}

InitIter ==
    /\ dom \in IterDocs
    /\ flags \in {InitFlags, InitFlags \ FLAG_STRIP_UNLIKELY}
    /\ pc = "select"
    /\ data = dom
    /\ it = NodeIter(dom, 2)
    /\ ctl = NoCtl
    /\ out = NoOut

\* one turn of the loop of select_scorable(body)
ScorableNext ==
    /\ pc = "select"
    /\ it.pc = "loop"
    /\ it.idx < Len(it.nodes)
    /\ it' = ScorableStep(flags, it)
    /\ dom' = it'.d
    /\ UNCHANGED <<flags, pc, data, ctl, out>>

\* next() raises StopIteration and select_scorable returns to_score
ScorableReturn ==
    /\ pc = "select"
    /\ it.pc = "loop"
    /\ it.idx >= Len(it.nodes)
    /\ it' = ScorableStep(flags, it)
    /\ out' = [op |-> "select_scorable", to_score |-> it.to_score]
    /\ pc' = "selected"
    /\ UNCHANGED <<dom, flags, data, ctl>>

NextIter == ScorableNext \/ ScorableReturn

SpecIter == InitIter /\ [][NextIter]_vars

\* C10: no node is visited twice; after a removed node none of its
\* descendants is visited; the nodes of the document are visited in
\* document order; and when the traversal ends every node of the document
\* that is still under the body has been visited.
C10_LiveTraversal ==
    pc \in {"select", "selected"} =>
        LET v == it.visits
            order == iterdescendants(data, 2)
        IN /\ \A i, j \in DOMAIN v : i < j => v[i] # v[j]
           /\ \A i \in DOMAIN v : \A j \in DOMAIN v :
                 (/\ i < j
                  /\ v[i] \in DOMAIN data
                  /\ is_unlikely(flags, data, v[i]))
                 => v[j] \notin Range(iterdescendants(data, v[i]))
           /\ \A i, j \in DOMAIN v :
                 (i < j /\ v[i] \in DOMAIN data /\ v[j] \in DOMAIN data)
                 => IndexOf(order, v[i]) < IndexOf(order, v[j])
           /\ (it.pc = "stop" =>
                 \A n \in DOMAIN data : Under(dom, 2, n) => n \in Range(v))

-----------------------------------------------------------------------------
(* grab_article, called on one Readable again and again                    *)

\* <html class=ch id=ih><body class=cb>
\*   <div class=c3><p>t4</p> <a>t5</a></div>      (the <a> only if t5 is not empty)
\*   <p>t6</p>                                    (only if t6 is not empty)
\* </body></html>
GrabDoc(ch, ih, cb, c3, t4, t5, t6) ==
    << El("html", ch, ih, <<>>, <<>>, None, <<2>>),
       El("body", cb, "", <<>>, <<>>, 1, IF t6 = <<>> THEN <<3>> ELSE <<3, 6>>),
       El("div", c3, "", <<>>, <<>>, 2, IF t5 = <<>> THEN <<4>> ELSE <<4, 5>>),
       El("p", "", "", t4, <<>>, 3, <<>>),
       El("a", "", "", t5, <<>>, IF t5 = <<>> THEN None ELSE 3, <<>>),
       El("p", "", "", t6, <<>>, IF t6 = <<>> THEN None ELSE 2, <<>>) >>

GrabDocs ==
    {GrabDoc(ch, ih, cb, c3, t4, t5, t6) :
        ch \in {"", "post"}, ih \in {"", "main"}, cb \in {"", "promo"},
        c3 \in {"", "menu", "comment"},
        t4 \in {Rep(<<"x">>, 30), Rep(<<"x">>, 300)},
        t5 \in {<<>>, Rep(<<"x">>, 100)},
        t6 \in {<<>>, Rep(<<"x">>, 30)}}

\* Readable()
InitGrab ==
    /\ dom = <<>>
    /\ flags = InitFlags
    /\ pc = "idle"
    /\ data = <<>>
    /\ it = NoIter
    /\ ctl = NoCtl
    /\ out = NoOut

\* grab_article(data) is called, after the last call returned or raised
Call ==
    /\ pc \in {"idle", "raised"}
    /\ ctl.calls < MaxCalls
    /\ \E doc \in GrabDocs :
          /\ data' = doc
          /\ ctl' = GrabStart(ctl.calls + 1, 1)
    /\ dom' = <<>>
    /\ out' = NoOut
    /\ pc' = "loop"
    /\ UNCHANGED <<flags, it>>

\* one turn of the loop of grab_article: a pass of _grab_article over the
\* input, parsed afresh
Pass ==
    /\ pc = "loop"
    /\ GrabLoopTest(ctl.textlen)
    /\ LET flag == ctl.flags[Len(ctl.flags)]
           rest == SubSeq(ctl.flags, 1, Len(ctl.flags) - 1)
           fl == flags \ flag
       IN \E g \in {_grab_article(fl, data, ctl.tree)} :
          \E len \in {IF g.raised THEN 0
                       ELSE Len(get_inner_text(g.d, g.content, FALSE))} :
             /\ flags' = fl
             /\ dom' = g.d
             /\ IF g.raised
                THEN /\ ctl' = [ctl EXCEPT !.flags = rest, !.passes = Append(@, fl)]
                     /\ pc' = "raised"
                ELSE /\ ctl' = [ctl EXCEPT !.flags = rest, !.content = g.content,
                                           !.textlen = IF rest = <<>> THEN @ ELSE len,
                                           !.passes = Append(@, fl),
                                           !.lens = Append(@, len)]
                     /\ pc' = IF rest = <<>> THEN "break" ELSE "loop"
    /\ UNCHANGED <<data, it, out>>

\* "return content"
Return ==
    /\ \/ pc = "loop" /\ ~GrabLoopTest(ctl.textlen)
       \/ pc = "break"
    /\ out' = [op |-> "grab_article", content |-> ctl.content]
    /\ pc' = "idle"
    /\ UNCHANGED <<dom, flags, data, it, ctl>>

NextGrab == Call \/ Pass \/ Return

SpecGrab == InitGrab /\ [][NextGrab]_vars

\* the flags the passes of the claim run with: all three, then one less each
Schedule ==
    << AllThree,
       FLAG_CLASS_WEIGHT \cup FLAG_CLEAN_CONDITIONALLY,
       FLAG_CLEAN_CONDITIONALLY,
       {} >>

\* C1: in the first call on a new Readable, pass k runs with the flags
\* Schedule[k]: all three, then without STRIP_UNLIKELY, then without
\* CLASS_WEIGHT too, then with none; between the passes the flags stay what
\* the last pass ran with, so none comes back.
C1_FlagSchedule ==
    ctl.calls = 1 =>
        /\ Len(ctl.passes) <= Len(Schedule)
        /\ \A k \in DOMAIN ctl.passes : ctl.passes[k] \cap AllThree = Schedule[k]
        /\ (ctl.passes # <<>> => flags = ctl.passes[Len(ctl.passes)])
        /\ (ctl.passes = <<>> => AllThree \subseteq flags)

\* the first call has run all four passes
C1_Witness ==
    /\ ctl.calls = 1
    /\ Len(ctl.passes) = 4
    /\ pc = "break"

\* the pass C2 has grab_article return: the first of the passes 1 to 3 whose
\* content has 250 characters or more, else the fourth
ReturningPass(lens) ==
    IF \E k \in 1..3 : k \in DOMAIN lens /\ lens[k] >= 250
    THEN CHOOSE k \in 1..3 : /\ k \in DOMAIN lens /\ lens[k] >= 250
                             /\ \A j \in 1..(k - 1) : lens[j] < 250
    ELSE 4

C3_FirstPassAllFlags ==
    (ctl.calls >= 1 /\ ctl.passes # <<>>) => AllThree \subseteq ctl.passes[1]

\* C4: no pass raises: select_scorable, score_paras, _select_top and
\* prep_article complete and give a content element, and the top that
\* _select_top chooses has a parent.
C4_NoPassRaises ==
    /\ pc # "raised"
    /\ (ctl.calls >= 1 /\ Len(ctl.lens) >= 1) => ctl.content # None

-----------------------------------------------------------------------------
(* One pass after prep_document: select_scorable, score_paras, _select_top *)

Sentence == <<"x", ".">>

\* <html><body id="readableBody">
\*   <div class=c3 id=i3><p>t4</p><a>t5</a></div>   (the <a> only if t5 is not empty)
\*   <tag6 class=c6><p>t7</p></tag6>                (or <tag6 class=c6>t7</tag6>)
\*   <p>t8</p>                                      (only if t8 is not empty)
\* </body></html>
ScoreDoc(c3, i3, t4, t5, tag6, c6, inp, t7, t8) ==
    << El("html", "", "", <<>>, <<>>, None, <<2>>),
       El("body", "", "readableBody", <<>>, <<>>, 1,
          IF t8 = <<>> THEN <<3, 6>> ELSE <<3, 6, 8>>),
       El("div", c3, i3, <<>>, <<>>, 2, IF t5 = <<>> THEN <<4>> ELSE <<4, 5>>),
       El("p", "", "", t4, <<>>, 3, <<>>),
       El("a", "", "", t5, <<>>, IF t5 = <<>> THEN None ELSE 3, <<>>),
       El(tag6, c6, "", IF inp THEN <<>> ELSE t7, <<>>, 2, IF inp THEN <<7>> ELSE <<>>),
       El("p", "", "", t7, <<>>, IF inp THEN 6 ELSE None, <<>>),
       El("p", "", "", t8, <<>>, IF t8 = <<>> THEN None ELSE 2, <<>>) >>

ScoreDocs ==
    {ScoreDoc(c3, i3, t4, t5, tag6, c6, inp, t7, t8) :
        c3 \in {"", "menu"}, i3 \in {"", "main"},
        t4 \in {Sentence, Rep(<<"x">>, 30)},
        t5 \in {<<>>, Rep(<<"x">>, 100)},
        tag6 \in {"div", "blockquote"}, c6 \in {"", "menu", "post"},
        inp \in BOOLEAN,
        t7 \in {Rep(<<"x">>, 30)},
        t8 \in {<<>>, Sentence, Sentence \o <<"\n">>, Rep(<<"x">>, 30),
                Rep(<<"x">>, 90)}}

\* the flag words of the first three passes
ScoreFlags ==
    {InitFlags, InitFlags \ FLAG_STRIP_UNLIKELY,
     InitFlags \ (FLAG_STRIP_UNLIKELY \cup FLAG_CLASS_WEIGHT)}

\* _grab_article as select_scorable(body) starts
InitScore ==
    /\ dom \in ScoreDocs
    /\ flags \in ScoreFlags
    /\ pc = "select"
    /\ data = dom
    /\ it = NodeIter(dom, 2)
    /\ ctl = NoCtl
    /\ out = NoOut

\* the elements that are annotated in e and were not in d
Annotated(d, e) ==
    {n \in DOMAIN e : e[n].readable /\ (n \in DOMAIN d => ~d[n].readable)}

\* score_paras(to_score, body) starts: "candidates = []"
ScoreBegin ==
    /\ pc = "selected"
    /\ ctl' = [calls |-> 0, body |-> 2, todo |-> out.to_score, candidates |-> <<>>,
               fresh |-> {}, best |-> None, top |-> None, content |-> None]
    /\ pc' = "score"
    /\ UNCHANGED <<dom, flags, data, it, out>>

\* one turn of the loop of score_paras
ScoreNext ==
    /\ pc = "score"
    /\ ctl.todo # <<>>
    /\ \E s \in {ScoreOne(flags, [d |-> dom, candidates |-> ctl.candidates],
                          Head(ctl.todo))} :
          /\ dom' = s.d
          /\ ctl' = [ctl EXCEPT !.todo = Tail(@), !.candidates = s.candidates,
                                !.fresh = Annotated(dom, s.d)]
    /\ UNCHANGED <<flags, pc, data, it, out>>

\* _select_top up to the sibling loop: the first loop, the new content
\* <div> and the fallback
SelectTop ==
    /\ pc = "score"
    /\ ctl.todo = <<>>
    /\ \E t \in {TopLoop([d |-> dom, top |-> None], ctl.candidates)} :
       \E s \in {WithContent(flags, t, ctl.body)} :
          /\ dom' = s.d
          /\ ctl' = [ctl EXCEPT !.best = t.top, !.top = s.top, !.content = s.content,
                                !.fresh = IF s.top = t.top THEN {}
                                          ELSE {s.top, ctl.body}]
          /\ out' = [op |-> "_select_top", before |-> dom, loop |-> t.d]
    /\ pc' = "top"
    /\ UNCHANGED <<flags, data, it>>

\* the sibling loop of _select_top
Siblings ==
    /\ pc = "top"
    /\ LET parent == getparent(dom, ctl.top)
       IN IF parent = None
          THEN /\ pc' = "raised"
               /\ UNCHANGED <<dom, out>>
          ELSE /\ dom' = SiblingLoop(dom, ctl.top, ctl.content, getchildren(dom, parent))
               /\ out' = [op |-> "siblings", before |-> dom, parent |-> parent]
               /\ pc' = "harvested"
    /\ ctl' = [ctl EXCEPT !.fresh = {}]
    /\ UNCHANGED <<flags, data, it>>

\* "self.prep_article(content); return content"
SelectReturn ==
    /\ pc = "harvested"
    /\ dom' = prep_article(flags, dom, ctl.content)
    /\ pc' = "done"
    /\ UNCHANGED <<flags, data, it, ctl, out>>

NextScore ==
    \/ ScorableNext
    \/ ScorableReturn
    \/ ScoreBegin
    \/ ScoreNext
    \/ SelectTop
    \/ Siblings
    \/ SelectReturn

SpecScore == InitScore /\ [][NextScore]_vars

\* C11: whenever a step of score_paras or _select_top annotates an element,
\* the element is at that moment in the tree under the document root: it is
\* not detached, and it is not the root itself, which has no parent.
C11_AnnotatedInTree ==
    pc \in {"score", "top"} =>
        \A n \in ctl.fresh : Under(dom, 1, n) /\ getparent(dom, n) # None

\* score * (1 - link_density) of the candidate c in the heap d
Discounted(d, c) ==
    LET ld == get_link_density(d, c)
    IN FracMul(ScoreOf(d, c), Frac(ld.den - ld.num, ld.den))

FracEq(a, b) == a.num * b.den = b.num * a.den

\* the first of the candidates cs whose discounted score none exceeds
\* (None when there is no candidate)
GreatestFirst(d, cs) ==
    IF cs = <<>> THEN None
    ELSE cs[CHOOSE i \in DOMAIN cs :
               /\ \A j \in DOMAIN cs : ~FracLess(Discounted(d, cs[i]), Discounted(d, cs[j]))
               /\ \A j \in 1..(i - 1) : FracLess(Discounted(d, cs[j]), Discounted(d, cs[i]))]

\* C12: after the first loop of _select_top every candidate has its score
\* times (1 - link density), taken once; the loop chooses the candidate with
\* the greatest such score, the earliest of equals; and when there is no
\* candidate or the chosen one is the body, top is a new <div> that holds
\* all the children the body had, is the only child of the body, and is
\* annotated like the body; otherwise top is the chosen candidate.
C12_SelectTop ==
    (pc = "top" /\ out.op = "_select_top") =>
        LET b == out.before
            cs == ctl.candidates
            body == ctl.body
        IN /\ \A i \in DOMAIN cs :
                 FracEq(ScoreOf(out.loop, cs[i]), Discounted(b, cs[i]))
           /\ ctl.best = GreatestFirst(b, cs)
           /\ IF ctl.best = None \/ b[ctl.best].tag = "body"
              THEN /\ ctl.top \notin DOMAIN b
                   /\ dom[ctl.top].tag = "div"
                   /\ dom[ctl.top].kids = b[body].kids
                   /\ \A i \in DOMAIN b[body].kids : dom[b[body].kids[i]].parent = ctl.top
                   /\ dom[body].kids = <<ctl.top>>
                   /\ dom[ctl.top].parent = body
                   /\ is_readable(dom, ctl.top)
                   /\ is_readable(dom, body)
              ELSE ctl.top = ctl.best

\* the loop chose the first of two candidates with equal discounted scores,
\* one of at least three candidates, and no fallback took its place
C12_Witness ==
    /\ pc = "top"
    /\ out.op = "_select_top"
    /\ Len(ctl.candidates) >= 3
    /\ ctl.top = ctl.best
    /\ ctl.best # None
    /\ \E i, j \in DOMAIN ctl.candidates :
          /\ i < j
          /\ ctl.candidates[i] = ctl.best
          /\ FracEq(Discounted(out.before, ctl.candidates[i]),
                    Discounted(out.before, ctl.candidates[j]))

\* a '.' followed by a space or by the end of the text
SentenceAsStated(t) ==
    \E i \in DOMAIN t : t[i] = "." /\ (i = Len(t) \/ t[i + 1] = " ")

\* the same, a '.' before one newline that ends the text counting too
SentenceOrFinalNewline(t) ==
    \/ SentenceAsStated(t)
    \/ Len(t) >= 2 /\ t[Len(t) - 1] = "." /\ t[Len(t)] = "\n"

\* the rule of the claim for the child n of top's parent, in the heap b
Harvested(b, top, n, newline) ==
    LET fifth == FracMul(ScoreOf(b, top), Frac(2, 10))
        threshold == IF FracLess(Frac(10, 1), fifth) THEN fifth ELSE Frac(10, 1)
        bonus == IF b[n].cls = b[top].cls /\ b[top].cls # "" THEN fifth ELSE Frac(0, 1)
        text == get_inner_text(b, n, TRUE)
        density == get_link_density(b, n)
    IN \/ n = top
       \/ b[n].readable /\ ~FracLess(FracAdd(ScoreOf(b, n), bonus), threshold)
       \/ b[n].tag = "p" /\ Len(text) > 80 /\ density.num * 4 < density.den
       \/ /\ b[n].tag = "p"
          /\ Len(text) < 80
          /\ density.num = 0
          /\ IF newline THEN SentenceOrFinalNewline(text) ELSE SentenceAsStated(text)

\* after the sibling loop the children of the content <div> are the
\* children of top's parent that the rule takes, in their order; each has
\* tag div or p; and the others stay where they were
HarvestContract(newline) ==
    (pc = "harvested" /\ out.op = "siblings") =>
        LET b == out.before
            sibs == b[out.parent].kids
            take(n) == Harvested(b, ctl.top, n, newline)
        IN /\ dom[ctl.content].kids = SelectSeq(sibs, take)
           /\ \A i \in DOMAIN dom[ctl.content].kids :
                 LET k == dom[ctl.content].kids[i]
                 IN dom[k].tag \in {"div", "p"} /\ dom[k].parent = ctl.content
           /\ dom[out.parent].kids = SelectSeq(sibs, LAMBDA n : ~take(n))

\* C13 as stated: with threshold max(10, 0.2 * top.score), a child n of
\* top's parent moves into the content <div> exactly when n is top, or n
\* is annotated and n.score + bonus >= threshold, or n is a <p> with more
\* than 80 characters and link density under 0.25, or n is a <p> with fewer
\* than 80 characters, link density 0 and a '.' followed by a space or by
\* the end of the text; the moved nodes keep their order and every child of
\* the content <div> is a div or a p.
C13_HarvestAsStated == HarvestContract(FALSE)

\* C13 amended: the same, the text of a short <p> matching also when its
\* '.' stands before one newline that ends the text.
C13_HarvestWithFinalNewline == HarvestContract(TRUE)

\* a sibling of top that is annotated, scores under the threshold, has the
\* class of top, and was moved into the content <div> for its bonus
C13_Witness ==
    /\ pc = "harvested"
    /\ out.op = "siblings"
    /\ \E i \in DOMAIN out.before[out.parent].kids :
          LET b == out.before
              n == b[out.parent].kids[i]
              fifth == FracMul(ScoreOf(b, ctl.top), Frac(2, 10))
          IN /\ n # ctl.top
             /\ b[n].readable
             /\ b[n].tag # "p"
             /\ b[n].cls = b[ctl.top].cls
             /\ FracLess(ScoreOf(b, n), FracMax(Frac(10, 1), fifth))
             /\ dom[n].parent = ctl.content

=============================================================================
